---- MODULE Spec2Model ----
(***************************************************************************)
(* A model of the NES Advantage Bluetooth HID firmware: the BLEJoystick    *)
(* device (BLEJoystick.h, BLEJoystick.cpp) and the session controller      *)
(* (main.cpp: setup, loop, joystickStateCallback, checkTimers).            *)
(*                                                                         *)
(* Six specifications share the definitions:                               *)
(*   SpecDevice  the BLEJoystick object driven through its public          *)
(*               operations and the transport's connection callbacks,      *)
(*               with joystickStateCallback registered;                    *)
(*   SpecEncode  a connected BLEJoystick whose input-state setters are     *)
(*               called with drawn arguments, and notifyHIDReport;         *)
(*   Spec        the firmware (setup, then the poll loop step by step)     *)
(*               with time, timeouts and transport events;                 *)
(*   SpecInput   the firmware with a wide set of button snapshots and the  *)
(*               poll cadence of delay(10);                                *)
(*   SpecBattery the firmware with changing battery readings;              *)
(*   SpecLive    the firmware running for ever, its steps weakly fair.     *)
(***************************************************************************)
EXTENDS Integers, Sequences, FiniteSets, TLC

(***************************************************************************)
(* Program constants                                                       *)
(***************************************************************************)
DEVICE_STOPPED == 0
DEVICE_IDLE == 1
DEVICE_ADVERTISING == 2
DEVICE_CONNECTED == 3

NES_BUTTON_A == 0
NES_BUTTON_B == 1
NES_BUTTON_SELECT == 2
NES_BUTTON_START == 3
NES_BUTTON_UP == 4
NES_BUTTON_DOWN == 5
NES_BUTTON_LEFT == 6
NES_BUTTON_RIGHT == 7

IDLE_TIMEOUT == 30000
ADVERTISING_TIMEOUT == 30000
BATTERY_CHECK_PERIOD == 5000
LOOP_DELAY == 10
POWER_ON_DELAY == 200
LED_HALF_PERIOD == 500

\* digitalWrite levels; the status indicator on LED0_PIN is active low
HIGH == 1
LOW == 0

(***************************************************************************)
(* Bounds of the model                                                     *)
(***************************************************************************)
\* state-machine operations recorded (and allowed) in one run of SpecDevice
MaxOps == 6
\* poll iterations (calls of delay) in one run of Spec
MaxIter == 2
\* poll iterations in one run of SpecInput
MaxPolls == 2
\* milliseconds that may pass inside checkTimers, after millis() was sampled
MaxSlips == 1
\* poll iterations in one run of SpecBattery
MaxBatteryIter == 2
\* poll iterations of SpecLive in which buttons may change and the transport
\* may deliver events; in the iterations after them neither happens
MaxEventIter == 2

VARIABLES
    \* BLEJoystick fields
    deviceState, jsBatteryLevel, buttons, axes, hat, stateChangeCallback,
    \* main.cpp globals
    buttonState, prevButtonState, lastActivityTime, advertisingStartTime,
    batteryLevel, prevBatteryLevel, lastBatteryCheck,
    \* locals of loop() and checkTimers() that live across the steps
    currentTime, dpadDirection, x, y,
    \* the outside: the clock, the indicator pin, the transport
    now, ledPin, inputValue, batteryValue, advertisingOn, link,
    \* position of the firmware, and counters that bound the runs
    pc, iter, slips,
    \* observers of the most recent step
    notified, cbSeen, nChanges,
    \* observers of the run
    idleEnteredAt, advEnteredAt, idleVia, lastStep,
    opLog, stLog, cbCounts, cbTrace, chgTotal,
    \* the arguments drawn for the calls of the input-state setters
    encIn

worldVars == <<deviceState, jsBatteryLevel, buttons, axes, hat, stateChangeCallback,
               buttonState, prevButtonState, lastActivityTime, advertisingStartTime,
               batteryLevel, prevBatteryLevel, lastBatteryCheck,
               now, ledPin, inputValue, batteryValue, advertisingOn,
               notified, cbSeen, nChanges, idleEnteredAt, advEnteredAt>>
localVars == <<currentTime, dpadDirection, x, y>>
histVars == <<opLog, stLog, cbCounts, cbTrace, chgTotal>>
vars == <<worldVars, localVars, histVars, link, pc, iter, slips, idleVia, lastStep, encIn>>

(***************************************************************************)
(* The state the device operations and the callback read and write, as one *)
(* record, so that an operation is a function from world to world.         *)
(***************************************************************************)
World ==
    [deviceState |-> deviceState, jsBatteryLevel |-> jsBatteryLevel,
     buttons |-> buttons, axes |-> axes, hat |-> hat,
     stateChangeCallback |-> stateChangeCallback,
     buttonState |-> buttonState, prevButtonState |-> prevButtonState,
     lastActivityTime |-> lastActivityTime,
     advertisingStartTime |-> advertisingStartTime,
     batteryLevel |-> batteryLevel, prevBatteryLevel |-> prevBatteryLevel,
     lastBatteryCheck |-> lastBatteryCheck,
     now |-> now, ledPin |-> ledPin, inputValue |-> inputValue,
     batteryValue |-> batteryValue, advertisingOn |-> advertisingOn,
     notified |-> notified, cbSeen |-> cbSeen, nChanges |-> nChanges,
     idleEnteredAt |-> idleEnteredAt, advEnteredAt |-> advEnteredAt]

\* the world at the start of a step: the per-step observers are cleared
Begin == [World EXCEPT !.notified = <<>>, !.cbSeen = <<>>, !.nChanges = 0]

Commit(w) ==
    /\ deviceState' = w.deviceState
    /\ jsBatteryLevel' = w.jsBatteryLevel
    /\ buttons' = w.buttons
    /\ axes' = w.axes
    /\ hat' = w.hat
    /\ stateChangeCallback' = w.stateChangeCallback
    /\ buttonState' = w.buttonState
    /\ prevButtonState' = w.prevButtonState
    /\ lastActivityTime' = w.lastActivityTime
    /\ advertisingStartTime' = w.advertisingStartTime
    /\ batteryLevel' = w.batteryLevel
    /\ prevBatteryLevel' = w.prevBatteryLevel
    /\ lastBatteryCheck' = w.lastBatteryCheck
    /\ now' = w.now
    /\ ledPin' = w.ledPin
    /\ inputValue' = w.inputValue
    /\ batteryValue' = w.batteryValue
    /\ advertisingOn' = w.advertisingOn
    /\ notified' = w.notified
    /\ cbSeen' = w.cbSeen
    /\ nChanges' = w.nChanges
    /\ idleEnteredAt' = w.idleEnteredAt
    /\ advEnteredAt' = w.advEnteredAt

\* (a - b) > t in unsigned 32-bit arithmetic (unsigned long on the target),
\* for clock values a, b and a limit t in 0 .. 2^31 - 1, the range the model's
\* clock stays in: when a < b the difference wraps to 2^32 - (b - a), which is
\* above 2^31 and so above t
Exceeds32(a, b, t) == IF a >= b THEN a - b > t ELSE TRUE

Bit(b, k) == IF b THEN 2^k ELSE 0

(***************************************************************************)
(* BLEJoystick                                                             *)
(***************************************************************************)
setBatteryLevel(w, level) ==
    LET l8 == level % 256
    IN  [w EXCEPT !.jsBatteryLevel = IF l8 > 100 THEN 100 ELSE l8]

notifyBatteryLevel(w) ==
    IF w.deviceState = DEVICE_CONNECTED
    THEN [w EXCEPT !.batteryValue = <<w.jsBatteryLevel>>,
                   !.notified = Append(@, [ch |-> "battery",
                                           val |-> <<w.jsBatteryLevel>>,
                                           st |-> w.deviceState])]
    ELSE w

lightOn(w) == [w EXCEPT !.ledPin = LOW]

lightOff(w) == [w EXCEPT !.ledPin = HIGH]

\* mutant: entering Idle does not restart the activity timer
joystickStateCallback_NoIdleReset(w) ==
    CASE w.deviceState = DEVICE_IDLE -> lightOff(w)
      [] w.deviceState = DEVICE_ADVERTISING ->
            [w EXCEPT !.advertisingStartTime = w.now]
      [] w.deviceState = DEVICE_CONNECTED ->
            notifyBatteryLevel(
                setBatteryLevel([lightOn(w) EXCEPT !.lastActivityTime = w.now],
                                w.batteryLevel))
      [] OTHER -> w

joystickStateCallback(w) ==
    CASE w.deviceState = DEVICE_IDLE ->
            [lightOff(w) EXCEPT !.lastActivityTime = w.now]
      [] w.deviceState = DEVICE_ADVERTISING ->
            [w EXCEPT !.advertisingStartTime = w.now]
      [] w.deviceState = DEVICE_CONNECTED ->
            notifyBatteryLevel(
                setBatteryLevel([lightOn(w) EXCEPT !.lastActivityTime = w.now],
                                w.batteryLevel))
      [] OTHER -> w

\* mutant: the callback is invoked whether or not the state changed
updateDeviceState_AlwaysCallback(w, newState) ==
    LET w1 == [w EXCEPT !.deviceState = newState,
                        !.nChanges = IF w.deviceState # newState THEN @ + 1 ELSE @,
                        !.idleEnteredAt =
                            IF newState = DEVICE_IDLE /\ w.deviceState # newState
                            THEN w.now ELSE @,
                        !.advEnteredAt =
                            IF newState = DEVICE_ADVERTISING /\ w.deviceState # newState
                            THEN w.now ELSE @]
    IN  IF w1.stateChangeCallback
        THEN joystickStateCallback([w1 EXCEPT !.cbSeen = Append(@, newState)])
        ELSE w1

\* mutant: the callback is invoked before the new state is stored
updateDeviceState_CallbackFirst(w, newState) ==
    IF w.deviceState # newState
    THEN LET w1 == IF w.stateChangeCallback
                   THEN joystickStateCallback([w EXCEPT !.cbSeen = Append(@, newState)])
                   ELSE w
         IN  [w1 EXCEPT !.deviceState = newState,
                        !.nChanges = @ + 1,
                        !.idleEnteredAt = IF newState = DEVICE_IDLE THEN w.now ELSE @,
                        !.advEnteredAt =
                            IF newState = DEVICE_ADVERTISING THEN w.now ELSE @]
    ELSE w

updateDeviceState(w, newState) ==
    IF w.deviceState # newState
    THEN LET w1 == [w EXCEPT !.deviceState = newState,
                             !.nChanges = @ + 1,
                             !.idleEnteredAt =
                                 IF newState = DEVICE_IDLE THEN w.now ELSE @,
                             !.advEnteredAt =
                                 IF newState = DEVICE_ADVERTISING THEN w.now ELSE @]
         IN  IF w1.stateChangeCallback
             THEN joystickStateCallback([w1 EXCEPT !.cbSeen = Append(@, newState)])
             ELSE w1
    ELSE w

start(w) ==
    IF w.deviceState = DEVICE_STOPPED THEN updateDeviceState(w, DEVICE_IDLE) ELSE w

\* mutant: the radio is started but the state is not updated
startAdvertising_NoUpdate(w) ==
    IF w.deviceState = DEVICE_IDLE THEN [w EXCEPT !.advertisingOn = TRUE] ELSE w

startAdvertising(w) ==
    IF w.deviceState = DEVICE_IDLE
    THEN updateDeviceState([w EXCEPT !.advertisingOn = TRUE], DEVICE_ADVERTISING)
    ELSE w

stopAdvertising(w) ==
    IF w.deviceState = DEVICE_ADVERTISING
    THEN updateDeviceState([w EXCEPT !.advertisingOn = FALSE], DEVICE_IDLE)
    ELSE w

\* mutant: the state is set to Stopped without stopping the advertising
stop_Direct(w) ==
    IF w.deviceState # DEVICE_STOPPED THEN updateDeviceState(w, DEVICE_STOPPED) ELSE w

stop(w) ==
    IF w.deviceState # DEVICE_STOPPED
    THEN updateDeviceState(stopAdvertising(w), DEVICE_STOPPED)
    ELSE w

onConnect(w) == updateDeviceState(w, DEVICE_CONNECTED)

onDisconnect(w) == updateDeviceState(w, DEVICE_IDLE)

\* b is the sequence of the twelve arguments b1..b12
setButtons(w, b) ==
    [w EXCEPT !.buttons =
        << Bit(b[1], 0) + Bit(b[2], 1) + Bit(b[3], 2) + Bit(b[4], 3)
             + Bit(b[5], 4) + Bit(b[6], 5) + Bit(b[7], 6) + Bit(b[8], 7),
           Bit(b[9], 0) + Bit(b[10], 1) + Bit(b[11], 2) + Bit(b[12], 3) >>]

\* a is the sequence of the eight arguments x, y, z, rZ, rX, rY, slider1, slider2
setAxes(w, a) == [w EXCEPT !.axes = a]

\* mutant: an argument above 8 is stored as it is
setHat_NoClamp(w, hatDirection) == [w EXCEPT !.hat = hatDirection]

setHat(w, hatDirection) ==
    [w EXCEPT !.hat = IF hatDirection <= 8 THEN hatDirection ELSE 0]

\* mutant: the Y byte is taken from the Z axis
hidReport_ZForY(w) ==
    << w.buttons[1], w.buttons[2], w.hat % 16, w.axes[1] % 256, w.axes[3] % 256 >>

\* the five bytes built by notifyHIDReport; an int16_t axis stored to a
\* uint8_t keeps its low eight bits
hidReport(w) ==
    << w.buttons[1], w.buttons[2], w.hat % 16, w.axes[1] % 256, w.axes[2] % 256 >>

\* mutant: the report is sent in any state
notifyHIDReport_NoGuard(w) ==
    [w EXCEPT !.inputValue = hidReport(w),
              !.notified = Append(@, [ch |-> "input",
                                      val |-> hidReport(w),
                                      st |-> w.deviceState])]

notifyHIDReport(w) ==
    IF w.deviceState = DEVICE_CONNECTED
    THEN [w EXCEPT !.inputValue = hidReport(w),
                   !.notified = Append(@, [ch |-> "input",
                                           val |-> hidReport(w),
                                           st |-> w.deviceState])]
    ELSE w

(***************************************************************************)
(* main.cpp: pure helpers                                                  *)
(***************************************************************************)
Min(a, b) == IF a < b THEN a ELSE b

\* readBatteryLevel on the ADC reading raw (0..4095):
\* min(100, int(raw / 4095.0 * 3.3 / 3.0 * 100)) = min(100, raw * 22 \div 819)
readBatteryLevel(raw) == Min(100, (raw * 22) \div 819)

\* ADC readings the model draws from: 0 %, 53 % and a reading above 100 %
RawSamples == {0, 2000, 4095}

\* a snapshot of the eight buttons with exactly the buttons of S pressed
Snap(S) == [i \in 0..7 |-> i \in S]

(***************************************************************************)
(* Initial states                                                          *)
(***************************************************************************)
\* no setter arguments are drawn where the setters are called by loop() only
NoInputs == [b |-> <<>>, hs |-> <<>>, k |-> 0, a |-> <<>>]

\* after the BLEJoystick constructor, with the globals of main.cpp as
\* initialised; the level of the indicator pin is not set by any code yet
InitCommon ==
    /\ deviceState = DEVICE_STOPPED
    /\ jsBatteryLevel = 100
    /\ buttons = <<0, 0>>
    /\ axes = <<0, 0, 0, 0, 0, 0, 0, 0>>
    /\ hat = 0
    /\ buttonState = Snap({})
    /\ prevButtonState = Snap({})
    /\ lastActivityTime = 0
    /\ advertisingStartTime = 0
    /\ prevBatteryLevel = 0
    /\ lastBatteryCheck = 0
    /\ currentTime = 0
    /\ dpadDirection = 0
    /\ x = 0
    /\ y = 0
    /\ now = 0
    /\ ledPin \in {LOW, HIGH}
    /\ inputValue = <<>>
    /\ batteryValue = <<>>
    /\ advertisingOn = FALSE
    /\ link = "down"
    /\ iter = 0
    /\ slips = 0
    /\ notified = <<>>
    /\ cbSeen = <<>>
    /\ nChanges = 0
    /\ idleEnteredAt = 0
    /\ advEnteredAt = 0
    /\ idleVia = "none"
    /\ lastStep = "init"
    /\ opLog = <<>>
    /\ stLog = <<>>
    /\ cbCounts = <<>>
    /\ cbTrace = <<>>
    /\ chgTotal = 0

\* a constructed device with joystickStateCallback registered and a battery
\* level already sampled, driven through its operations
InitDevice ==
    /\ InitCommon
    /\ pc = "api"
    /\ stateChangeCallback = TRUE
    /\ batteryLevel \in {readBatteryLevel(r) : r \in RawSamples}
    /\ encIn = NoInputs

(***************************************************************************)
(* Steps: the bookkeeping every step shares                                *)
(***************************************************************************)
\* the run's record of the state-machine operations (kept in SpecDevice)
Log(name, w) ==
    IF pc = "api"
    THEN /\ opLog' = Append(opLog, name)
         /\ stLog' = Append(stLog, w.deviceState)
         /\ cbCounts' = Append(cbCounts, Len(w.cbSeen))
         /\ cbTrace' = cbTrace \o w.cbSeen
         /\ chgTotal' = chgTotal + w.nChanges
    ELSE UNCHANGED histVars

\* the operation a step of SpecDevice performed
Step(name) == lastStep' = IF pc = "api" THEN name ELSE lastStep

\* how Idle was entered last
Via(name, w) == IF w.nChanges > 0 /\ w.deviceState = DEVICE_IDLE THEN name ELSE idleVia

\* a state-machine operation of BLEJoystick called by the application
DeviceOp(name, w) ==
    /\ pc = "api"
    /\ Len(opLog) < MaxOps
    /\ Commit(w)
    /\ Log(name, w)
    /\ lastStep' = name
    /\ idleVia' = Via(name, w)
    /\ UNCHANGED <<localVars, link, pc, iter, slips, encIn>>

ApiStart == DeviceOp("start", start(Begin))

ApiStop == DeviceOp("stop", stop(Begin))

ApiStartAdvertising == DeviceOp("startAdvertising", startAdvertising(Begin))

ApiStopAdvertising == DeviceOp("stopAdvertising", stopAdvertising(Begin))

ApiNotifyHIDReport ==
    /\ pc = "api"
    /\ Commit(notifyHIDReport(Begin))
    /\ lastStep' = "notifyHIDReport"
    /\ UNCHANGED <<localVars, histVars, encIn, link, pc, iter, slips, idleVia>>

ApiNotifyBatteryLevel ==
    /\ pc = "api"
    /\ Commit(notifyBatteryLevel(Begin))
    /\ lastStep' = "notifyBatteryLevel"
    /\ UNCHANGED <<localVars, histVars, encIn, link, pc, iter, slips, idleVia>>

(***************************************************************************)
(* The transport: a central can connect while the radio advertises; the    *)
(* stack then calls onConnect, and onDisconnect when the link is lost.     *)
(* The callbacks run on the stack's own task, so the application may act   *)
(* between the radio's accepting the connection and onConnect.             *)
(***************************************************************************)
Running == pc \notin {"boot", "off"}

LinkEstablished ==
    /\ Running
    /\ link = "down"
    /\ advertisingOn
    /\ link' = "connecting"
    /\ Commit([Begin EXCEPT !.advertisingOn = FALSE])
    /\ Step("linkEstablished")
    /\ UNCHANGED <<localVars, histVars, encIn, pc, iter, slips, idleVia>>

OnConnect ==
    /\ Running
    /\ link = "connecting"
    /\ pc = "api" => Len(opLog) < MaxOps
    /\ LET w == onConnect(Begin)
       IN  /\ Commit(w)
           /\ Log("onConnect", w)
           /\ idleVia' = Via("onConnect", w)
    /\ link' = "up"
    /\ Step("onConnect")
    /\ UNCHANGED <<localVars, pc, iter, slips, encIn>>

OnDisconnect ==
    /\ Running
    /\ link = "up"
    /\ pc = "api" => Len(opLog) < MaxOps
    /\ LET w == onDisconnect(Begin)
       IN  /\ Commit(w)
           /\ Log("onDisconnect", w)
           /\ idleVia' = Via("onDisconnect", w)
    /\ link' = "down"
    /\ Step("onDisconnect")
    /\ UNCHANGED <<localVars, pc, iter, slips, encIn>>

NextDevice ==
    \/ ApiStart
    \/ ApiStop
    \/ ApiStartAdvertising
    \/ ApiStopAdvertising
    \/ ApiNotifyHIDReport
    \/ ApiNotifyBatteryLevel
    \/ LinkEstablished
    \/ OnConnect
    \/ OnDisconnect

SpecDevice == InitDevice /\ [][NextDevice]_vars

(***************************************************************************)
(* The report encoder: a started device with a central connected, and the  *)
(* input-state setters called with the arguments drawn in encIn, in any    *)
(* order, with notifyHIDReport in between.                                 *)
(***************************************************************************)
\* every assignment of the twelve button arguments b1..b12
ButtonAssignments == [1..12 -> BOOLEAN]

NoButtons == [i \in 1..12 |-> FALSE]

\* every uint8_t argument of setHat
HatArgs == 0..255

\* hat arguments at the edges: the range 0..8, the first value above it, and
\* values whose low four bits are within 0..8
HatEdges == {0, 8, 9, 16, 17, 255}

\* int16_t axis arguments: zero, the extremes loop() computes, a value above
\* eight bits and the lowest value
AxisArgs == {0, 127, -127, 300, -32768}

\* arguments of the axes the report leaves out
OtherAxisArgs == {0, 77}

NoAxes == <<0, 0, 0, 0, 0, 0, 0, 0>>

\* the runs of the encoder: every button assignment; every hat argument;
\* two setHat calls in a row; the axes.  hs holds the arguments of the run's
\* setHat calls and k counts the calls made
EncInputs ==
    {[b |-> b, hs |-> <<2>>, k |-> 0, a |-> <<127, -127, 0, 0, 0, 0, 0, 0>>] :
        b \in ButtonAssignments}
    \cup {[b |-> NoButtons, hs |-> <<h>>, k |-> 0, a |-> NoAxes] : h \in HatArgs}
    \cup {[b |-> NoButtons, hs |-> <<h1, h2>>, k |-> 0, a |-> NoAxes] :
            h1 \in HatEdges, h2 \in HatEdges}
    \cup {[b |-> NoButtons, hs |-> <<8>>, k |-> 0, a |-> <<ax, ay, o, o, o, o, o, o>>] :
            ax \in AxisArgs, ay \in AxisArgs, o \in OtherAxisArgs}

\* the device after start(), startAdvertising() and a connect event, with the
\* callback registered and the battery at 53 %
InitEncode ==
    /\ deviceState = DEVICE_CONNECTED
    /\ jsBatteryLevel = 53
    /\ buttons = <<0, 0>>
    /\ axes = NoAxes
    /\ hat = 0
    /\ stateChangeCallback = TRUE
    /\ buttonState = Snap({})
    /\ prevButtonState = Snap({})
    /\ lastActivityTime = 0
    /\ advertisingStartTime = 0
    /\ batteryLevel = 53
    /\ prevBatteryLevel = 0
    /\ lastBatteryCheck = 0
    /\ currentTime = 0
    /\ dpadDirection = 0
    /\ x = 0
    /\ y = 0
    /\ now = 0
    /\ ledPin = LOW
    /\ inputValue = <<>>
    /\ batteryValue = <<53>>
    /\ advertisingOn = FALSE
    /\ link = "up"
    /\ pc = "enc"
    /\ iter = 0
    /\ slips = 0
    /\ notified = <<>>
    /\ cbSeen = <<>>
    /\ nChanges = 0
    /\ idleEnteredAt = 0
    /\ advEnteredAt = 0
    /\ idleVia = "start"
    /\ lastStep = "onConnect"
    /\ opLog = <<>>
    /\ stLog = <<>>
    /\ cbCounts = <<>>
    /\ cbTrace = <<>>
    /\ chgTotal = 0
    /\ encIn \in EncInputs

\* a call of a setter or of notifyHIDReport by the application
EncOp(name, w) ==
    /\ pc = "enc"
    /\ Commit(w)
    /\ lastStep' = name
    /\ UNCHANGED <<localVars, histVars, link, pc, iter, slips, idleVia>>

EncSetButtons ==
    /\ EncOp("setButtons", setButtons(Begin, encIn.b))
    /\ UNCHANGED encIn

EncSetAxes ==
    /\ EncOp("setAxes", setAxes(Begin, encIn.a))
    /\ UNCHANGED encIn

\* the next setHat call of the run
EncSetHat ==
    /\ encIn.k < Len(encIn.hs)
    /\ EncOp("setHat", setHat(Begin, encIn.hs[encIn.k + 1]))
    /\ encIn' = [encIn EXCEPT !.k = @ + 1]

EncNotifyHIDReport ==
    /\ EncOp("notifyHIDReport", notifyHIDReport(Begin))
    /\ UNCHANGED encIn

NextEncode ==
    \/ EncSetButtons
    \/ EncSetAxes
    \/ EncSetHat
    \/ EncNotifyHIDReport

SpecEncode == InitEncode /\ [][NextEncode]_vars

(***************************************************************************)
(* main.cpp: setup, loop and checkTimers                                   *)
(***************************************************************************)
InitFirmware ==
    /\ InitCommon
    /\ pc = "boot"
    /\ stateChangeCallback = FALSE
    /\ batteryLevel = 0
    /\ encIn = NoInputs

\* mutant: the single directions are tested before the diagonals
hatOf_SinglesFirst(bs) ==
    IF bs[NES_BUTTON_UP] THEN 1
    ELSE IF bs[NES_BUTTON_RIGHT] THEN 3
    ELSE IF bs[NES_BUTTON_DOWN] THEN 5
    ELSE IF bs[NES_BUTTON_LEFT] THEN 7
    ELSE 0

\* the hat direction loop() derives from the snapshot bs
hatOf(bs) ==
    IF bs[NES_BUTTON_UP] /\ bs[NES_BUTTON_RIGHT] THEN 2
    ELSE IF bs[NES_BUTTON_RIGHT] /\ bs[NES_BUTTON_DOWN] THEN 4
    ELSE IF bs[NES_BUTTON_DOWN] /\ bs[NES_BUTTON_LEFT] THEN 6
    ELSE IF bs[NES_BUTTON_LEFT] /\ bs[NES_BUTTON_UP] THEN 8
    ELSE IF bs[NES_BUTTON_UP] THEN 1
    ELSE IF bs[NES_BUTTON_RIGHT] THEN 3
    ELSE IF bs[NES_BUTTON_DOWN] THEN 5
    ELSE IF bs[NES_BUTTON_LEFT] THEN 7
    ELSE 0

\* the int8_t locals x and y of loop()
xOf(bs) == IF bs[NES_BUTTON_RIGHT] THEN 127 ELSE IF bs[NES_BUTTON_LEFT] THEN -127 ELSE 0

yOf(bs) == IF bs[NES_BUTTON_DOWN] THEN 127 ELSE IF bs[NES_BUTTON_UP] THEN -127 ELSE 0

\* mutant: Select and Start are passed as buttons 3 and 4
buttonArgs_SelectStartAt3(bs) ==
    << bs[NES_BUTTON_A], bs[NES_BUTTON_B], bs[NES_BUTTON_SELECT], bs[NES_BUTTON_START],
       FALSE, FALSE, FALSE, FALSE, FALSE, FALSE, FALSE, FALSE >>

\* the twelve arguments loop() passes to setButtons
buttonArgs(bs) ==
    << bs[NES_BUTTON_A], bs[NES_BUTTON_B], FALSE, FALSE, FALSE, FALSE,
       FALSE, FALSE, FALSE, FALSE, bs[NES_BUTTON_SELECT], bs[NES_BUTTON_START] >>

\* mutant: a change seen while Advertising restarts the advertising timer too
updateJoystick_WakeWhileAdvertising(w, bs) ==
    IF w.deviceState = DEVICE_CONNECTED
    THEN [notifyHIDReport(setButtons(setHat(w, hatOf(bs)), buttonArgs(bs)))
             EXCEPT !.lastActivityTime = w.now]
    ELSE IF w.deviceState \in {DEVICE_IDLE, DEVICE_ADVERTISING}
    THEN [startAdvertising(w) EXCEPT !.advertisingStartTime = w.now]
    ELSE w

\* the body of "if (stateChanged)" in loop()
updateJoystick(w, bs) ==
    IF w.deviceState = DEVICE_CONNECTED
    THEN [notifyHIDReport(setButtons(setHat(w, hatOf(bs)), buttonArgs(bs)))
             EXCEPT !.lastActivityTime = w.now]
    ELSE IF w.deviceState = DEVICE_IDLE
    THEN [startAdvertising(w) EXCEPT !.advertisingStartTime = w.now]
    ELSE w

\* the periodic battery check of loop(), with raw the ADC reading
batteryCheck(w, raw) ==
    IF Exceeds32(w.now, w.lastBatteryCheck, BATTERY_CHECK_PERIOD)
    THEN LET w1 == [w EXCEPT !.batteryLevel = readBatteryLevel(raw)]
             w2 == IF w1.batteryLevel # w1.prevBatteryLevel
                      /\ w1.deviceState = DEVICE_CONNECTED
                   THEN notifyBatteryLevel(
                            setBatteryLevel(
                                [w1 EXCEPT !.prevBatteryLevel = w1.batteryLevel],
                                w1.batteryLevel))
                   ELSE w1
         IN  [w2 EXCEPT !.lastBatteryCheck = w.now]
    ELSE w

\* mutant: the idle timeout is measured on the advertising timer
idleTimedOut_AdvertisingTimer(w, ct) ==
    w.deviceState = DEVICE_IDLE /\ Exceeds32(ct, w.advertisingStartTime, IDLE_TIMEOUT)

\* the conditions of checkTimers, with ct its local currentTime
idleTimedOut(w, ct) ==
    w.deviceState = DEVICE_IDLE /\ Exceeds32(ct, w.lastActivityTime, IDLE_TIMEOUT)

advertisingTimedOut(w, ct) ==
    w.deviceState = DEVICE_ADVERTISING
        /\ Exceeds32(ct, w.advertisingStartTime, ADVERTISING_TIMEOUT)

\* mutant: the advertising timeout is not acted on
advertisingCheck_BlinkOnly(w, ct) ==
    IF w.deviceState = DEVICE_ADVERTISING
    THEN [w EXCEPT !.ledPin = IF (ct \div LED_HALF_PERIOD) % 2 = 0 THEN HIGH ELSE LOW]
    ELSE w

\* the second statement of checkTimers
advertisingCheck(w, ct) ==
    IF advertisingTimedOut(w, ct)
    THEN lightOff(stopAdvertising(w))
    ELSE IF w.deviceState = DEVICE_ADVERTISING
    THEN [w EXCEPT !.ledPin = IF (ct \div LED_HALF_PERIOD) % 2 = 0 THEN HIGH ELSE LOW]
    ELSE w

\* setup(): powerOn, construct and register, start, advertise, read the battery
Setup(raw) ==
    /\ pc = "boot"
    /\ LET w0 == [Begin EXCEPT !.now = now + POWER_ON_DELAY,
                               !.stateChangeCallback = TRUE]
           w1 == startAdvertising(start(w0))
           w2 == [w1 EXCEPT !.advertisingStartTime = w1.now,
                            !.batteryLevel = readBatteryLevel(raw),
                            !.prevBatteryLevel = readBatteryLevel(raw)]
       IN  /\ Commit(w2)
           /\ idleVia' = Via("setup", w2)
    /\ pc' = "poll"
    /\ UNCHANGED <<localVars, histVars, encIn, link, iter, slips, lastStep>>

\* mutant: only A, B, Select and Start are compared
stateChanged_FaceButtonsOnly(bs, prev) == \E i \in 0..3 : bs[i] # prev[i]

\* the edge detection of loop(): some button differs from the previous snapshot
stateChanged(bs, prev) == \E i \in 0..7 : bs[i] # prev[i]

\* loop(): sample the controller, detect an edge, update the joystick
LoopPoll(snap) ==
    /\ pc = "poll"
    /\ LET changed == stateChanged(snap, prevButtonState)
           w0 == [Begin EXCEPT !.buttonState = snap,
                               !.prevButtonState =
                                   [i \in 0..7 |-> IF snap[i] # prevButtonState[i]
                                                   THEN snap[i] ELSE prevButtonState[i]]]
           w1 == IF changed THEN updateJoystick(w0, snap) ELSE w0
       IN  /\ Commit(w1)
           /\ idleVia' = Via("poll", w1)
           /\ dpadDirection' = IF changed THEN hatOf(snap) ELSE dpadDirection
           /\ x' = IF changed THEN xOf(snap) ELSE x
           /\ y' = IF changed THEN yOf(snap) ELSE y
    /\ pc' = "battery"
    /\ UNCHANGED <<currentTime, histVars, encIn, link, iter, slips, lastStep>>

LoopBattery(raw) ==
    /\ pc = "battery"
    /\ Commit(batteryCheck(Begin, raw))
    /\ pc' = "timers"
    /\ UNCHANGED <<localVars, histVars, encIn, link, iter, slips, idleVia, lastStep>>

\* checkTimers(): currentTime = millis()
CheckTimersSample ==
    /\ pc = "timers"
    /\ currentTime' = now
    /\ Commit(Begin)
    /\ pc' = "idlecheck"
    /\ UNCHANGED <<dpadDirection, x, y, histVars, encIn, link, iter, slips, idleVia, lastStep>>

\* checkTimers(): the idle timeout; powerOff() does not return
CheckTimersIdle ==
    /\ pc = "idlecheck"
    /\ Commit(Begin)
    /\ pc' = IF idleTimedOut(World, currentTime) THEN "off" ELSE "advcheck"
    /\ UNCHANGED <<localVars, histVars, encIn, link, iter, slips, idleVia, lastStep>>

\* checkTimers(): the advertising timeout, or the blinking indicator
CheckTimersAdv ==
    /\ pc = "advcheck"
    /\ LET w == advertisingCheck(Begin, currentTime)
       IN  /\ Commit(w)
           /\ idleVia' = Via("advTimeout", w)
    /\ pc' = "delay"
    /\ UNCHANGED <<localVars, histVars, encIn, link, iter, slips, lastStep>>

\* delay(10) returns after at least 10 ms: d is the time the iteration took
Delay(d, max) ==
    /\ pc = "delay"
    /\ iter < max
    /\ d >= LOOP_DELAY
    /\ Commit([Begin EXCEPT !.now = now + d])
    /\ iter' = iter + 1
    /\ pc' = "poll"
    /\ UNCHANGED <<localVars, histVars, encIn, link, slips, idleVia, lastStep>>

\* a millisecond passes inside checkTimers, between its sampling millis() and
\* its first test
Elapse ==
    /\ pc = "idlecheck"
    /\ slips < MaxSlips
    /\ Commit([Begin EXCEPT !.now = now + 1])
    /\ slips' = slips + 1
    /\ UNCHANGED <<localVars, histVars, encIn, link, pc, iter, idleVia, lastStep>>

\* what an iteration may take: the nominal delay, and waits that bring the
\* clock exactly onto a timeout and one millisecond past it
DelaySteps == {LOOP_DELAY, IDLE_TIMEOUT, IDLE_TIMEOUT + 1}

\* the ADC reading drawn in Spec (53 %)
TimerRawSamples == {2000}

\* snapshots drawn in Spec
TimerSnapshots == {Snap({}), Snap({NES_BUTTON_A})}

Next ==
    \/ \E raw \in TimerRawSamples : Setup(raw)
    \/ \E snap \in TimerSnapshots : LoopPoll(snap)
    \/ \E raw \in TimerRawSamples : LoopBattery(raw)
    \/ CheckTimersSample
    \/ CheckTimersIdle
    \/ CheckTimersAdv
    \/ \E d \in DelaySteps : Delay(d, MaxIter)
    \/ Elapse
    \/ LinkEstablished
    \/ OnConnect
    \/ OnDisconnect

Spec == InitFirmware /\ [][Next]_vars

\* snapshots drawn in SpecInput: every combination of the four directions,
\* every combination of A, B, Select and Start, and some mixed ones
Directions == {NES_BUTTON_UP, NES_BUTTON_DOWN, NES_BUTTON_LEFT, NES_BUTTON_RIGHT}

FaceButtons == {NES_BUTTON_A, NES_BUTTON_B, NES_BUTTON_SELECT, NES_BUTTON_START}

InputSnapshots ==
    {Snap(S) : S \in SUBSET Directions}
        \cup {Snap(S) : S \in SUBSET FaceButtons}
        \cup {Snap(0..7),
              Snap({NES_BUTTON_A, NES_BUTTON_UP, NES_BUTTON_RIGHT}),
              Snap({NES_BUTTON_START, NES_BUTTON_DOWN, NES_BUTTON_LEFT})}

NextInput ==
    \/ \E raw \in TimerRawSamples : Setup(raw)
    \/ \E snap \in InputSnapshots : LoopPoll(snap)
    \/ \E raw \in TimerRawSamples : LoopBattery(raw)
    \/ CheckTimersSample
    \/ CheckTimersIdle
    \/ CheckTimersAdv
    \/ Delay(LOOP_DELAY, MaxPolls)
    \/ LinkEstablished
    \/ OnConnect
    \/ OnDisconnect

SpecInput == InitFirmware /\ [][NextInput]_vars

\* the firmware with changing battery readings and no button pressed: an
\* iteration takes the nominal delay or brings the next battery check due
BatteryDelays == {LOOP_DELAY, BATTERY_CHECK_PERIOD + 1}

NextBattery ==
    \/ \E raw \in RawSamples : Setup(raw)
    \/ LoopPoll(Snap({}))
    \/ \E raw \in RawSamples : LoopBattery(raw)
    \/ CheckTimersSample
    \/ CheckTimersIdle
    \/ CheckTimersAdv
    \/ \E d \in BatteryDelays : Delay(d, MaxBatteryIter)
    \/ LinkEstablished
    \/ OnConnect
    \/ OnDisconnect

SpecBattery == InitFirmware /\ [][NextBattery]_vars

(***************************************************************************)
(* The firmware running for ever.  Buttons change and the transport        *)
(* delivers events during the first MaxEventIter iterations only.  The     *)
(* iterations looked at are half a timeout, or a timeout and a millisecond,*)
(* apart.  The clock is advanced up to LiveClockMax, which is later than   *)
(* every timeout that can still be pending once the events have ceased.    *)
(* The runtime calls loop() again and again: the steps of the firmware are *)
(* weakly fair; the transport's events are not.                            *)
(***************************************************************************)
LiveDelays == {IDLE_TIMEOUT \div 2, IDLE_TIMEOUT + 1}

LiveClockMax == POWER_ON_DELAY + (MaxEventIter + 5) * (IDLE_TIMEOUT + 1)

EventsMayOccur == iter < MaxEventIter

LivePoll(snap) ==
    /\ stateChanged(snap, prevButtonState) => EventsMayOccur
    /\ LoopPoll(snap)

\* delay(10), and the iterations skipped until the next one looked at
LiveDelay(d) ==
    /\ pc = "delay"
    /\ d >= LOOP_DELAY
    /\ Commit([Begin EXCEPT !.now = Min(now + d, LiveClockMax)])
    /\ iter' = Min(iter + 1, MaxEventIter)
    /\ pc' = "poll"
    /\ UNCHANGED <<localVars, histVars, encIn, link, slips, idleVia, lastStep>>

LiveLinkEstablished == EventsMayOccur /\ LinkEstablished

LiveOnConnect == EventsMayOccur /\ OnConnect

LiveOnDisconnect == EventsMayOccur /\ OnDisconnect

\* the steps of setup() and loop()
LiveFirmware ==
    \/ \E raw \in TimerRawSamples : Setup(raw)
    \/ \E snap \in TimerSnapshots : LivePoll(snap)
    \/ \E raw \in TimerRawSamples : LoopBattery(raw)
    \/ CheckTimersSample
    \/ CheckTimersIdle
    \/ CheckTimersAdv
    \/ \E d \in LiveDelays : LiveDelay(d)

NextLive ==
    \/ LiveFirmware
    \/ LiveLinkEstablished
    \/ LiveOnConnect
    \/ LiveOnDisconnect

SpecLive == InitFirmware /\ [][NextLive]_vars /\ WF_vars(LiveFirmware)

(***************************************************************************)
(* Claims about the device state machine (SpecDevice)                      *)
(***************************************************************************)
\* the rows of the transition table
TableRow(from, op, to) ==
    \/ from = DEVICE_STOPPED /\ op = "start" /\ to = DEVICE_IDLE
    \/ from = DEVICE_IDLE /\ op = "startAdvertising" /\ to = DEVICE_ADVERTISING
    \/ from = DEVICE_ADVERTISING /\ op = "stopAdvertising" /\ to = DEVICE_IDLE
    \/ from = DEVICE_ADVERTISING /\ op = "onConnect" /\ to = DEVICE_CONNECTED
    \/ from = DEVICE_CONNECTED /\ op = "onDisconnect" /\ to = DEVICE_IDLE
    \/ op = "stop" /\ to = DEVICE_STOPPED

\* C1: every change of DeviceState follows a row of the transition table; in
\* particular Connected is entered only from Advertising, so a connect event
\* delivered in Stopped or Idle does not move the device to Connected.
C1_TransitionTable ==
    [][deviceState' # deviceState => TableRow(deviceState, lastStep', deviceState')]_vars

\* C2: a disconnect event changes the state only when the state is Connected
\* (Connected -> Idle); it does not take the device out of Stopped (which only
\* start() leaves) and does not change the state in Advertising.
C2_DisconnectOnlyWhenConnected ==
    [][lastStep' = "onDisconnect"
         => /\ (deviceState' # deviceState)
                  => (deviceState = DEVICE_CONNECTED /\ deviceState' = DEVICE_IDLE)
            /\ (deviceState = DEVICE_STOPPED) => (deviceState' = DEVICE_STOPPED)
            /\ (deviceState = DEVICE_ADVERTISING) => (deviceState' = DEVICE_ADVERTISING)]_vars

\* C4: from Stopped with the callback registered, start(), startAdvertising()
\* and a connect event end in Connected with exactly three callback
\* invocations, which observe Idle, Advertising and Connected in that order.
C4_StartAdvertiseConnect ==
    opLog = <<"start", "startAdvertising", "onConnect">>
        => /\ deviceState = DEVICE_CONNECTED
           /\ Len(cbTrace) = 3
           /\ cbTrace = <<DEVICE_IDLE, DEVICE_ADVERTISING, DEVICE_CONNECTED>>
           /\ cbCounts = <<1, 1, 1>>

C4_Witness ==
    /\ opLog = <<"start", "startAdvertising", "onConnect">>
    /\ deviceState = DEVICE_CONNECTED

\* the state in which the i-th recorded operation was called
PreState(i) == IF i = 1 THEN DEVICE_STOPPED ELSE stLog[i - 1]

\* C5: the callback has been invoked exactly as often as DeviceState changed
\* value; an operation that ends in the state it was called in fired no
\* callback; of two consecutive startAdvertising() calls the second fires
\* none, and the pair fires exactly one when the first was made in Idle.
C5_CallbackPerChange ==
    /\ Len(cbTrace) = chgTotal
    /\ \A i \in 1..Len(opLog) :
          /\ (stLog[i] = PreState(i)) => cbCounts[i] = 0
          /\ (i > 1 /\ opLog[i] = "startAdvertising" /\ opLog[i - 1] = "startAdvertising")
                => /\ cbCounts[i] = 0
                   /\ (PreState(i - 1) = DEVICE_IDLE) => cbCounts[i - 1] + cbCounts[i] = 1

C5_Witness ==
    /\ opLog = <<"start", "startAdvertising", "startAdvertising">>
    /\ cbCounts = <<1, 1, 0>>
    /\ deviceState = DEVICE_ADVERTISING

\* C10: nothing is handed to the transport while DeviceState is not Connected:
\* every value sent was sent in Connected, and notifyHIDReport or
\* notifyBatteryLevel called in Stopped, Idle or Advertising sends nothing and
\* leaves the device, the characteristics and the application's state as
\* they were.
C10_NoNotifyUnlessConnected ==
    [][/\ \A i \in 1..Len(notified') : notified'[i].st = DEVICE_CONNECTED
       /\ (inputValue' # inputValue \/ batteryValue' # batteryValue)
            => Len(notified') > 0
       /\ (lastStep' \in {"notifyHIDReport", "notifyBatteryLevel"}
             /\ deviceState # DEVICE_CONNECTED)
            => /\ notified' = <<>>
               /\ UNCHANGED <<deviceState, jsBatteryLevel, buttons, axes, hat,
                              inputValue, batteryValue, ledPin, lastActivityTime,
                              advertisingStartTime, batteryLevel, prevBatteryLevel,
                              advertisingOn, link>>]_vars

C10_Witness ==
    /\ lastStep = "notifyHIDReport"
    /\ deviceState = DEVICE_ADVERTISING
    /\ link = "connecting"
    /\ notified = <<>>
    /\ inputValue = <<>>

\* C12: a step that takes DeviceState into Connected invokes the callback
\* once, with the state already Connected, and sends exactly one battery
\* notification, which carries the application's current battery level; the
\* level stored in the device and the level sent are always within 0..100.
C12_BatteryPushedOnConnect ==
    [][/\ (deviceState # DEVICE_CONNECTED /\ deviceState' = DEVICE_CONNECTED)
            => /\ cbSeen' = <<DEVICE_CONNECTED>>
               /\ notified' = <<[ch |-> "battery", val |-> <<batteryLevel>>,
                                 st |-> DEVICE_CONNECTED]>>
               /\ batteryValue' = <<batteryLevel>>
               /\ jsBatteryLevel' = batteryLevel
       /\ jsBatteryLevel' \in 0..100
       /\ \A i \in 1..Len(batteryValue') : batteryValue'[i] \in 0..100]_vars

C12_Witness ==
    /\ lastStep = "onConnect"
    /\ deviceState = DEVICE_CONNECTED
    /\ batteryLevel = 53
    /\ batteryValue = <<53>>
    /\ Len(notified) = 1

\* C13: once the state machine has made a transition, the indicator is on
\* (LED0_PIN low) whenever DeviceState is Connected and off (LED0_PIN high)
\* whenever DeviceState is Idle or Stopped.
C13_IndicatorFollowsState ==
    chgTotal > 0
        => /\ (deviceState = DEVICE_CONNECTED) => (ledPin = LOW)
           /\ (deviceState \in {DEVICE_IDLE, DEVICE_STOPPED}) => (ledPin = HIGH)

\* C14: stop() ends in Stopped from every state; called in Advertising it
\* stops the advertising and the callback observes Idle, then Stopped; called
\* in Idle or Connected the callback is invoked once, observing Stopped;
\* called in Stopped it invokes no callback and changes nothing.
C14_StopFromAnyState ==
    [][lastStep' = "stop"
         => /\ deviceState' = DEVICE_STOPPED
            /\ (deviceState = DEVICE_ADVERTISING)
                  => (cbSeen' = <<DEVICE_IDLE, DEVICE_STOPPED>> /\ ~advertisingOn')
            /\ (deviceState \in {DEVICE_IDLE, DEVICE_CONNECTED})
                  => (cbSeen' = <<DEVICE_STOPPED>>)
            /\ (deviceState = DEVICE_STOPPED)
                  => /\ cbSeen' = <<>>
                     /\ notified' = <<>>
                     /\ UNCHANGED <<jsBatteryLevel, buttons, axes, hat, inputValue,
                                    batteryValue, ledPin, lastActivityTime,
                                    advertisingStartTime, batteryLevel,
                                    prevBatteryLevel, advertisingOn, link>>]_vars

C14_Witness ==
    /\ opLog = <<"start", "startAdvertising", "stop">>
    /\ cbCounts = <<1, 1, 2>>
    /\ cbTrace = <<DEVICE_IDLE, DEVICE_ADVERTISING, DEVICE_IDLE, DEVICE_STOPPED>>
    /\ deviceState = DEVICE_STOPPED

(***************************************************************************)
(* Claims about the report encoder (SpecEncode)                            *)
(***************************************************************************)
\* bit k of the byte v
BitSet(v, k) == (v \div 2^k) % 2 = 1

\* the low eight bits of the int16_t value v
Low8(v) == (v + 32768) % 256

\* C11: setButtons stores button i+1 in bit i of byte 0 for i < 8 and buttons
\* 9..12 in bits 0..3 of byte 1, whose bits 4..7 are 0; every notified report
\* holds the two stored button bytes, the stored hat (0..8) in byte 2 with a
\* zero high nibble, and the low eight bits of the stored X and Y axes in
\* bytes 3 and 4, whatever the other six axes hold.
C11_ReportOfStoredState ==
    [][/\ lastStep' = "setButtons"
            => /\ \A i \in 0..7 : BitSet(buttons'[1], i) <=> encIn.b[i + 1]
               /\ \A i \in 0..3 : BitSet(buttons'[2], i) <=> encIn.b[i + 9]
               /\ buttons'[1] \in 0..255
               /\ buttons'[2] \in 0..15
       /\ lastStep' = "setAxes" => axes' = encIn.a
       /\ lastStep' = "notifyHIDReport"
            => /\ Len(notified') = 1
               /\ LET r == notified'[1].val
                  IN  /\ Len(r) = 5
                      /\ r[1] = buttons[1]
                      /\ r[2] = buttons[2]
                      /\ \A i \in 4..7 : ~BitSet(r[2], i)
                      /\ hat \in 0..8 => r[3] = hat
                      /\ \A i \in 4..7 : ~BitSet(r[3], i)
                      /\ r[4] = Low8(axes[1])
                      /\ r[5] = Low8(axes[2])
                      /\ inputValue' = r]_vars

C11_Witness ==
    /\ lastStep = "notifyHIDReport"
    /\ buttons = <<255, 15>>
    /\ hat = 2
    /\ inputValue = <<255, 15, 2, 127, 129>>

\* C18: a setHat call stores its argument when it is within 0..8 and 0 when it
\* is above 8; the stored hat is always within 0..8, and byte 2 of every
\* notified report is the stored hat, unaltered by the four-bit mask.
C18_HatWithinRange ==
    [][/\ lastStep' = "setHat"
            => hat' = IF encIn.hs[encIn'.k] \in 0..8 THEN encIn.hs[encIn'.k] ELSE 0
       /\ hat' \in 0..8
       /\ \A i \in 1..Len(notified') :
             notified'[i].ch = "input"
                => (notified'[i].val[3] = hat' /\ notified'[i].val[3] \in 0..8)]_vars

C18_Witness ==
    /\ lastStep = "notifyHIDReport"
    /\ encIn.hs = <<8, 17>>
    /\ encIn.k = 2
    /\ hat = 0
    /\ inputValue = <<0, 0, 0, 0, 0>>

(***************************************************************************)
(* Claims about the poll loop's encoding of the snapshot (SpecInput)       *)
(***************************************************************************)
\* the input reports handed to the transport by the most recent step
InputReports == {notified[i].val : i \in {j \in 1..Len(notified) : notified[j].ch = "input"}}

\* the byte that holds the signed 8-bit value v
Int8Byte(v) == IF v < 0 THEN v + 256 ELSE v

\* C3: every report notified for a snapshot change carries the axes of the
\* directional buttons: the X byte is +127 if Right is held, else -127 if Left
\* is held, else 0, the Y byte likewise for Down and Up; Up+Right held gives
\* hat 2, X = 127, Y = -127.
C3_ReportCarriesAxes ==
    \A r \in InputReports :
        /\ r[4] = Int8Byte(IF buttonState[NES_BUTTON_RIGHT] THEN 127
                           ELSE IF buttonState[NES_BUTTON_LEFT] THEN -127 ELSE 0)
        /\ r[5] = Int8Byte(IF buttonState[NES_BUTTON_DOWN] THEN 127
                           ELSE IF buttonState[NES_BUTTON_UP] THEN -127 ELSE 0)
        /\ (buttonState[NES_BUTTON_UP] /\ buttonState[NES_BUTTON_RIGHT])
              => (r[3] = 2 /\ r[4] = 127 /\ r[5] = Int8Byte(-127))

\* exactly the directions of S are held in the current snapshot
HeldDirections(S) == \A d \in Directions : buttonState[d] <=> d \in S

\* C8: the hat the poll loop derives is 2, 4, 6, 8 for Up+Right, Right+Down,
\* Down+Left, Left+Up; 1, 3, 5, 7 for Up, Right, Down, Left alone; 0 for none;
\* Up+Right never gives 1 or 3; any other combination stays within 0..8.
C8_HatDerivation ==
    pc # "boot"
        => /\ HeldDirections({NES_BUTTON_UP, NES_BUTTON_RIGHT}) => dpadDirection = 2
           /\ HeldDirections({NES_BUTTON_RIGHT, NES_BUTTON_DOWN}) => dpadDirection = 4
           /\ HeldDirections({NES_BUTTON_DOWN, NES_BUTTON_LEFT}) => dpadDirection = 6
           /\ HeldDirections({NES_BUTTON_LEFT, NES_BUTTON_UP}) => dpadDirection = 8
           /\ HeldDirections({NES_BUTTON_UP}) => dpadDirection = 1
           /\ HeldDirections({NES_BUTTON_RIGHT}) => dpadDirection = 3
           /\ HeldDirections({NES_BUTTON_DOWN}) => dpadDirection = 5
           /\ HeldDirections({NES_BUTTON_LEFT}) => dpadDirection = 7
           /\ HeldDirections({}) => dpadDirection = 0
           /\ (buttonState[NES_BUTTON_UP] /\ buttonState[NES_BUTTON_RIGHT])
                 => dpadDirection \notin {1, 3}
           /\ dpadDirection \in 0..8
           /\ \A r \in InputReports : r[3] = dpadDirection

C8_Witness ==
    /\ pc = "battery"
    /\ deviceState = DEVICE_CONNECTED
    /\ HeldDirections({NES_BUTTON_UP, NES_BUTTON_RIGHT})
    /\ dpadDirection = 2
    /\ InputReports # {}

\* C9: in every report notified for a snapshot change, byte 0 is A in bit 0
\* and B in bit 1 and nothing else, byte 1 is Select in bit 2 and Start in
\* bit 3 and nothing else; the snapshot with only A pressed gives the report
\* 01 00 00 00 00.
C9_ButtonBytes ==
    \A r \in InputReports :
        /\ Len(r) = 5
        /\ r[1] = Bit(buttonState[NES_BUTTON_A], 0) + Bit(buttonState[NES_BUTTON_B], 1)
        /\ r[2] = Bit(buttonState[NES_BUTTON_SELECT], 2)
                    + Bit(buttonState[NES_BUTTON_START], 3)
        /\ (buttonState = Snap({NES_BUTTON_A})) => r = <<1, 0, 0, 0, 0>>

C9_Witness ==
    /\ buttonState = Snap({NES_BUTTON_A})
    /\ InputReports = {<<1, 0, 0, 0, 0>>}
    /\ inputValue = <<1, 0, 0, 0, 0>>

\* the step of loop() that samples the controller and acts on a change
PollStep == pc = "poll" /\ pc' = "battery"

\* the number of input reports handed to the transport by the step taken
ReportsSent == Cardinality({i \in 1..Len(notified') : notified'[i].ch = "input"})

\* C15: a poll iteration notifies a HID report exactly when the snapshot it
\* sampled differs in some button from the snapshot of the previous iteration
\* and the state is Connected, and then exactly one; after the step the
\* stored previous snapshot is the snapshot just sampled.
C15_ReportOnChangeWhenConnected ==
    [][PollStep
         => /\ ReportsSent = IF buttonState' # prevButtonState
                                  /\ deviceState = DEVICE_CONNECTED
                              THEN 1 ELSE 0
            /\ prevButtonState' = buttonState']_vars

C15_Witness ==
    /\ pc = "battery"
    /\ iter = 1
    /\ deviceState = DEVICE_CONNECTED
    /\ buttonState = Snap({NES_BUTTON_LEFT})
    /\ InputReports = {<<0, 0, 7, 0, 0>>}

\* C19: at the end of a poll iteration with the device Connected, the report
\* last handed to the transport, if there is one, encodes the current
\* snapshot: A, B, Select, Start and the hat of the directional buttons.
C19_LastReportIsCurrent ==
    (pc = "delay" /\ deviceState = DEVICE_CONNECTED /\ inputValue # <<>>)
        => /\ inputValue[1] = Bit(buttonState[NES_BUTTON_A], 0)
                                + Bit(buttonState[NES_BUTTON_B], 1)
           /\ inputValue[2] = Bit(buttonState[NES_BUTTON_SELECT], 2)
                                + Bit(buttonState[NES_BUTTON_START], 3)
           /\ inputValue[3] = hatOf(buttonState)

(***************************************************************************)
(* Claims about the battery level (SpecBattery)                            *)
(***************************************************************************)
\* the step of loop() in which the periodic battery check is due and made
BatteryCheckStep ==
    /\ pc = "battery"
    /\ pc' = "timers"
    /\ now - lastBatteryCheck > BATTERY_CHECK_PERIOD

\* C20: after a periodic battery check made while Connected, the level last
\* handed to the transport is the level just sampled.
C20_PushedLevelIsSampled ==
    [][(BatteryCheckStep /\ deviceState = DEVICE_CONNECTED)
         => batteryValue' = <<batteryLevel'>>]_vars

(***************************************************************************)
(* Claims about the timeouts (Spec)                                        *)
(***************************************************************************)
\* the step that evaluates the idle timeout of checkTimers
IdleCheckStep == pc = "idlecheck" /\ pc' # "idlecheck"

\* C6: with the device in Idle since idleEnteredAt (entered no later than the
\* time checkTimers sampled), the poll loop powers down exactly when the
\* sampled time is more than IDLE_TIMEOUT past the entry: never within the
\* first IDLE_TIMEOUT ms, and at the first iteration past it.  It powers down
\* in no other state.
C6_IdleTimeout ==
    [][IdleCheckStep
         => /\ (pc' = "off") => (deviceState = DEVICE_IDLE)
            /\ (deviceState = DEVICE_IDLE /\ idleEnteredAt <= currentTime)
                 => ((pc' = "off") <=> (currentTime - idleEnteredAt > IDLE_TIMEOUT))]_vars

C6_Witness ==
    /\ pc = "off"
    /\ idleVia = "onDisconnect"
    /\ currentTime - idleEnteredAt = IDLE_TIMEOUT + 1

\* C7: when checkTimers finds the device Advertising for more than
\* ADVERTISING_TIMEOUT ms, it stops advertising, the state becomes Idle and
\* the iteration goes on to its delay without powering down; powering down
\* after that takes more than IDLE_TIMEOUT ms in Idle, counted from the
\* moment Idle was entered.
C7_AdvertisingTimeout ==
    [][/\ (pc = "advcheck" /\ pc' # "advcheck" /\ deviceState = DEVICE_ADVERTISING
             /\ advEnteredAt <= currentTime
             /\ currentTime - advEnteredAt > ADVERTISING_TIMEOUT)
            => /\ deviceState' = DEVICE_IDLE
               /\ ~advertisingOn'
               /\ pc' = "delay"
               /\ idleEnteredAt' = now
               /\ idleVia' = "advTimeout"
       /\ (pc # "off" /\ pc' = "off" /\ idleVia = "advTimeout")
            => /\ deviceState = DEVICE_IDLE
               /\ idleEnteredAt <= currentTime
               /\ currentTime - idleEnteredAt > IDLE_TIMEOUT]_vars

C7_Witness ==
    /\ pc = "off"
    /\ idleVia = "advTimeout"
    /\ idleEnteredAt - advEnteredAt = ADVERTISING_TIMEOUT + 1
    /\ currentTime - idleEnteredAt = IDLE_TIMEOUT + 1

\* C16: a snapshot change detected while Idle takes the device to Advertising
\* in that iteration and sets the advertising timer to the current time; a
\* change detected while Advertising leaves the state and the advertising
\* timer as they were; the advertising timeout fires only when more than
\* ADVERTISING_TIMEOUT ms have passed since Advertising was entered.
C16_WakeFromIdle ==
    [][/\ (PollStep /\ buttonState' # prevButtonState /\ deviceState = DEVICE_IDLE)
            => /\ deviceState' = DEVICE_ADVERTISING
               /\ advertisingOn'
               /\ advertisingStartTime' = now
               /\ advEnteredAt' = now
       /\ (PollStep /\ buttonState' # prevButtonState
             /\ deviceState = DEVICE_ADVERTISING)
            => /\ deviceState' = DEVICE_ADVERTISING
               /\ advertisingStartTime' = advertisingStartTime
       /\ (pc = "advcheck" /\ deviceState = DEVICE_ADVERTISING
             /\ deviceState' = DEVICE_IDLE)
            => /\ advertisingStartTime = advEnteredAt
               /\ currentTime - advEnteredAt > ADVERTISING_TIMEOUT]_vars

C16_Witness ==
    /\ pc = "delay"
    /\ idleVia = "advTimeout"
    /\ deviceState = DEVICE_IDLE
    /\ advEnteredAt = POWER_ON_DELAY + LOOP_DELAY
    /\ currentTime - advEnteredAt = ADVERTISING_TIMEOUT + 1

(***************************************************************************)
(* Claims about the firmware running for ever (SpecLive)                   *)
(***************************************************************************)
\* C17 as stated: once button changes and transport events have ceased, the
\* device eventually powers down.
C17_EventuallyPowerDown == <>(pc = "off")

\* C17, amended: once button changes and transport events have ceased with
\* the device not Connected, the device eventually powers down.
C17_PowerDownUnlessConnected ==
    <>[](deviceState # DEVICE_CONNECTED) => <>(pc = "off")

C17_Witness ==
    /\ pc = "off"
    /\ iter = MaxEventIter
    /\ idleVia = "advTimeout"
    /\ link = "down"
    /\ now < LiveClockMax

\* in SpecLive the clock reaches LiveClockMax only with the device Connected
\* or powered down
LiveClockSuffices == now = LiveClockMax => (deviceState = DEVICE_CONNECTED \/ pc = "off")

(***************************************************************************)
(* Claims about the timeouts and the transport's own task (Spec)           *)
(***************************************************************************)
\* C21: the firmware powers down only with DeviceState Idle, and not before
\* IDLE_TIMEOUT ms have passed since Idle was entered, also when the
\* disconnect event is delivered inside checkTimers, after it has sampled
\* the time; it never powers down while Connected.
C21_NoEarlyPowerDown ==
    [][(pc # "off" /\ pc' = "off")
         => /\ deviceState = DEVICE_IDLE
            /\ deviceState # DEVICE_CONNECTED
            /\ now - idleEnteredAt >= IDLE_TIMEOUT]_vars

====
